---- MODULE Spec2Model ----
(***************************************************************************)
(* A model of gofmtcomment.go (SwaggerVariableReplacer): the extraction of *)
(* literal constants from parsed Go files into r.constants, and the        *)
(* rewriting of placeholders in "//" lines from that table.                *)
(*                                                                         *)
(* Text is modelled character by character: a Go string is a sequence of   *)
(* one-character strings, so trimming, splitting, joining and the three    *)
(* regular expressions are computed as the code computes them.             *)
(***************************************************************************)
EXTENDS Integers, Sequences, FiniteSets, TLC

VARIABLES
    constants,  \* r.constants: identifier -> extracted value
    asts,       \* per file: what parser.ParseFile returns for it
    goFile,     \* per file: name ends in ".go" and not in "_test.go"
    disk,       \* per file: its content on disk
    orig,       \* per file: its content when the run started (history)
    lines,      \* the lines buffer of the last replaceVariablesInComments
    writes,     \* per file: number of os.WriteFile calls made on it
    warnings,   \* names printed as "Warning: Variable '..' not found"
    mode,       \* "file" (ProcessFile), "dir" (ProcessDirectory), "api"
    pc,         \* position of the run
    idx,        \* position of the current filepath.Walk
    err,        \* the error the run returned ("" for nil)
    runs        \* number of replaceVariablesInComments calls completed

vars == <<constants, asts, goFile, disk, orig, lines, writes, warnings,
          mode, pc, idx, err, runs>>

-----------------------------------------------------------------------------
(* Bounds of the model.                                                    *)

\* number of files in the directory that ProcessDirectory walks
NFiles == 2
\* longest list of names, and of initializers, in one ValueSpec
MaxNames == 2
\* most ValueSpecs in one file of the declaration-order family
MaxSpecs == 3
\* most calls of replaceVariablesInComments on one file
MaxRuns == 2

-----------------------------------------------------------------------------
(* Characters and strings.                                                 *)

LF == "\n"
QUOTE == "\""
\* the back quote of a raw string literal (written symbolically)
BQUOTE == "BACKQUOTE"
BSLASH == "\\"

DigitSeq == <<"0", "1", "2", "3", "4", "5", "6", "7", "8", "9">>
Digits == {DigitSeq[i] : i \in 1..10}
Letters == {"a", "b", "c", "d", "e", "f", "g", "h", "i", "j", "k", "l", "m",
            "n", "o", "p", "q", "r", "s", "t", "u", "v", "w", "x", "y", "z",
            "A", "B", "C", "D", "E", "F", "G", "H", "I", "J", "K", "L", "M",
            "N", "O", "P", "Q", "R", "S", "T", "U", "V", "W", "X", "Y", "Z"}

\* [A-Za-z_] and [A-Za-z0-9_] of the three patterns
IsIdStart(c) == c \in Letters \cup {"_"}
IsIdChar(c) == c \in Letters \cup Digits \cup {"_"}

DigitVal(c) == (CHOOSE i \in 1..10 : DigitSeq[i] = c) - 1

\* s[from..] (empty when from > Len(s))
Drop(s, from) == SubSeq(s, from, Len(s))

\* t occurs in s at position i
OccursAt(s, t, i) ==
    /\ i >= 1
    /\ i + Len(t) - 1 <= Len(s)
    /\ \A k \in 1..Len(t) : s[i + k - 1] = t[k]

\* strings.Contains(s, t)
Contains(s, t) == \E i \in 1..(Len(s) + 1) : OccursAt(s, t, i)

\* strings.Split(s, "\n"): always at least one element
RECURSIVE Split(_)
Split(s) ==
    IF \A i \in 1..Len(s) : s[i] # LF
    THEN <<s>>
    ELSE LET i == CHOOSE j \in 1..Len(s) :
                      s[j] = LF /\ \A k \in 1..(j - 1) : s[k] # LF
         IN  <<SubSeq(s, 1, i - 1)>> \o Split(Drop(s, i + 1))

\* strings.Join(ls, "\n")
RECURSIVE Join(_)
Join(ls) ==
    IF Len(ls) = 0 THEN <<>>
    ELSE IF Len(ls) = 1 THEN ls[1]
    ELSE ls[1] \o <<LF>> \o Join(Tail(ls))

\* strings.Trim(s, c) for a one-character cutset
RECURSIVE TrimLeft(_, _)
TrimLeft(s, c) ==
    IF Len(s) > 0 /\ s[1] = c THEN TrimLeft(Tail(s), c) ELSE s
RECURSIVE TrimRight(_, _)
TrimRight(s, c) ==
    IF Len(s) > 0 /\ s[Len(s)] = c
    THEN TrimRight(SubSeq(s, 1, Len(s) - 1), c) ELSE s
Trim(s, c) == TrimRight(TrimLeft(s, c), c)

\* decimal text of n >= 0
RECURSIVE Itoa(_)
Itoa(n) ==
    IF n < 10 THEN <<DigitSeq[n + 1]>>
    ELSE Itoa(n \div 10) \o <<DigitSeq[(n % 10) + 1]>>

-----------------------------------------------------------------------------
(* Values of r.constants (interface{}): an int, a float64, a bool or a     *)
(* string.  One record shape for all four: n carries the number, s the     *)
(* text.  A float64 is kept as its integer part n and the digits s of its  *)
(* fraction without trailing zeros (the model's float literals are of the  *)
(* decimal-point form only).                                               *)

IntVal(n) == [kind |-> "int", n |-> n, s |-> <<>>]
FloatVal(n, frac) == [kind |-> "float", n |-> n, s |-> frac]
BoolVal(b) == [kind |-> "bool", n |-> IF b THEN 1 ELSE 0, s |-> <<>>]
StrVal(str) == [kind |-> "string", n |-> 0, s |-> str]

\* the empty table of NewSwaggerVariableReplacer
EmptyTable == [name \in {} |-> IntVal(0)]

\* r.constants[name] = value
Bind(table, name, value) ==
    [k \in (DOMAIN table) \cup {name} |->
        IF k = name THEN value ELSE table[k]]

\* fmt.Sprintf("%s", strVal) for a string, fmt.Sprintf("%v", value) otherwise
FormatValue(v) ==
    CASE v.kind = "string" -> v.s
      [] v.kind = "int" -> Itoa(v.n)
      [] v.kind = "bool" ->
            IF v.n = 1 THEN <<"t", "r", "u", "e">>
            ELSE <<"f", "a", "l", "s", "e">>
      [] v.kind = "float" ->
            IF Len(v.s) = 0 THEN Itoa(v.n) ELSE Itoa(v.n) \o <<".">> \o v.s

-----------------------------------------------------------------------------
(* The three placeholder patterns and processCommentLine.                  *)

\* each pattern is: an opener, ([A-Za-z_][A-Za-z0-9_]*), a closer
Patterns ==
    << [open |-> <<"{", "{">>, close |-> <<"}", "}">>],
       [open |-> <<"$", "{">>, close |-> <<"}">>],
       [open |-> <<"@", "V", "A", "R", "(">>, close |-> <<")">>] >>

\* last index of the longest run of identifier characters starting at j
IdEnd(s, j) ==
    CHOOSE e \in j..Len(s) :
        /\ \A k \in j..e : IsIdChar(s[k])
        /\ e = Len(s) \/ ~IsIdChar(s[e + 1])

\* the closer must follow the identifier that ends at e
CloseAfter(p, s, e) ==
    IF OccursAt(s, p.close, e + 1) THEN e + Len(p.close) ELSE 0

\* index of the last character of the match of p that starts at i, 0 if none
MatchEnd(p, s, i) ==
    IF /\ OccursAt(s, p.open, i)
       /\ i + Len(p.open) <= Len(s)
       /\ IsIdStart(s[i + Len(p.open)])
    THEN CloseAfter(p, s, IdEnd(s, i + Len(p.open)))
    ELSE 0

\* submatches[1] of the match of p at i..e
MatchName(p, i, e, s) == SubSeq(s, i + Len(p.open), e - Len(p.close))

\* Replacement with an unbound placeholder deleted instead of kept
Replacement_DropUnknown(table, name, match) ==
    IF name \in DOMAIN table
    THEN [out |-> FormatValue(table[name]), warn |-> <<>>]
    ELSE [out |-> <<>>, warn |-> <<name>>]

\* the callback of ReplaceAllStringFunc: the text that replaces the match
\* and the warning it prints
Replacement(table, name, match) ==
    IF name \in DOMAIN table
    THEN [out |-> FormatValue(table[name]), warn |-> <<>>]
    ELSE [out |-> match, warn |-> <<name>>]

\* what position i of s contributes, e being MatchEnd there: the character,
\* or the replacement of the match; next is where the scan goes on
ScanAt(p, s, i, e, table) ==
    IF e = 0 THEN [r |-> [out |-> <<s[i]>>, warn |-> <<>>], next |-> i + 1]
    ELSE [r |-> Replacement(table, MatchName(p, i, e, s), SubSeq(s, i, e)),
          next |-> e + 1]

\* pattern.ReplaceAllStringFunc(s, callback) from position i on, out and
\* warn being what the positions before i produced: leftmost matches, not
\* overlapping, the replaced text is not scanned again
RECURSIVE ReplaceFrom(_, _, _, _, _, _)
ReplaceNext(p, s, table, out, warn, step) ==
    ReplaceFrom(p, s, step.next, table, out \o step.r.out,
                warn \o step.r.warn)
ReplaceFrom(p, s, i, table, out, warn) ==
    IF i > Len(s) THEN [out |-> out, warn |-> warn]
    ELSE ReplaceNext(p, s, table, out, warn,
                     ScanAt(p, s, i, MatchEnd(p, s, i), table))

ReplaceAllStringFunc(p, s, table) == ReplaceFrom(p, s, 1, table, <<>>, <<>>)

\* PatternOrder without the @VAR(NAME) pattern
PatternOrder_SkipLast == <<1, 2, 2>>

\* the order in which processCommentLine applies the patterns
PatternOrder == <<1, 2, 3>>

\* one round of the loop of processCommentLine: result = pattern k on result
AfterPattern(warn, r) == [out |-> r.out, warn |-> warn \o r.warn]
ApplyPattern(k, acc, table) ==
    AfterPattern(acc.warn,
                 ReplaceAllStringFunc(Patterns[PatternOrder[k]], acc.out,
                                      table))

\* processCommentLine(line): each pattern works on the previous one's result
processCommentLine(line, table) ==
    ApplyPattern(3,
        ApplyPattern(2,
            ApplyPattern(1, [out |-> line, warn |-> <<>>], table),
            table),
        table)

\* strings.Contains(line, "//")
HasComment(line) == Contains(line, <<"/", "/">>)

\* LineChanged with every comment line counted as changed
LineChanged_Always(newLine, line) == TRUE

\* newLine != line
LineChanged(newLine, line) == newLine # line

\* one round of the loop of replaceVariablesInComments: a line without "//"
\* is not passed to processCommentLine
LineResult(line, table) ==
    IF HasComment(line) THEN processCommentLine(line, table)
    ELSE [out |-> line, warn |-> <<>>]

\* the loop of replaceVariablesInComments over the lines buffer from line i
\* on: the buffer, modified and the warnings printed
RECURSIVE ProcessLines(_, _, _, _, _)
StoreLine(ls, i, table, modified, warn, r, changed) ==
    ProcessLines(IF changed THEN [ls EXCEPT ![i] = r.out] ELSE ls, i + 1,
                 table, modified \/ changed, warn \o r.warn)
ProcessLine(ls, i, table, modified, warn, r) ==
    StoreLine(ls, i, table, modified, warn, r,
              HasComment(ls[i]) /\ LineChanged(r.out, ls[i]))
ProcessLines(ls, i, table, modified, warn) ==
    IF i > Len(ls) THEN [lines |-> ls, modified |-> modified, warn |-> warn]
    ELSE ProcessLine(ls, i, table, modified, warn, LineResult(ls[i], table))

\* WriteBack with the file written whether or not a line changed
WriteBack_Always(modified) == TRUE

\* whether replaceVariablesInComments writes the file back
WriteBack(modified) == modified

\* the end of replaceVariablesInComments: the final lines buffer, whether
\* os.WriteFile is called, the content afterwards
WriteResult(content, r, w) ==
    [lines |-> r.lines,
     wrote |-> w,
     content |-> IF w THEN Join(r.lines) ELSE content,
     warn |-> r.warn]
AfterLoop(content, r) == WriteResult(content, r, WriteBack(r.modified))

\* replaceVariablesInComments(filename) on a file holding content
replaceVariablesInComments(content, table) ==
    AfterLoop(content, ProcessLines(Split(content), 1, table, FALSE, <<>>))

-----------------------------------------------------------------------------
(* The parsed file and extractConstants.                                   *)
(*                                                                         *)
(* asts[f] is [ok, decls]: ok is FALSE when parser.ParseFile returns an    *)
(* error; decls are the file's const and var GenDecls in source order,     *)
(* each [tok, specs]; a ValueSpec is [names, typed, values] with typed =   *)
(* (Type # nil); an expression is [node, kind, value] with value the text  *)
(* of a BasicLit token or the name of an Ident.                            *)

Expr(node, kind, value) == [node |-> node, kind |-> kind, value |-> value]
ValueSpec(names, typed, values) ==
    [names |-> names, typed |-> typed, values |-> values]
GenDecl(tok, specs) == [tok |-> tok, specs |-> specs]

\* strconv.Atoi on a token of an unsigned literal: decimal digits only
RECURSIVE DecimalValue(_)
DecimalValue(tok) ==
    IF Len(tok) = 0 THEN 0
    ELSE 10 * DecimalValue(SubSeq(tok, 1, Len(tok) - 1))
         + DigitVal(tok[Len(tok)])
Atoi(tok) ==
    IF Len(tok) > 0 /\ \A i \in 1..Len(tok) : tok[i] \in Digits
    THEN [ok |-> TRUE, n |-> DecimalValue(tok)]
    ELSE [ok |-> FALSE, n |-> 0]

\* strconv.ParseFloat(tok, 64) on a literal of the form digits "." digits
ParseFloat(tok) ==
    IF /\ \E i \in 1..Len(tok) : tok[i] = "."
       /\ \A i \in 1..Len(tok) : tok[i] \in Digits \cup {"."}
       /\ Cardinality({i \in 1..Len(tok) : tok[i] = "."}) = 1
       /\ Len(tok) > 1
    THEN LET dot == CHOOSE i \in 1..Len(tok) : tok[i] = "."
         IN  [ok |-> TRUE,
              n |-> DecimalValue(SubSeq(tok, 1, dot - 1)),
              frac |-> TrimRight(Drop(tok, dot + 1), "0")]
    ELSE [ok |-> FALSE, n |-> 0, frac |-> <<>>]

\* lines[i] = "// " + lines[i] for i >= 1 of extractValue
RECURSIVE PrefixLines(_)
PrefixLines(ls) ==
    IF Len(ls) = 0 THEN <<>>
    ELSE <<(<<"/", "/", " ">> \o ls[1])>> \o PrefixLines(Tail(ls))

\* the STRING case of extractValue after the quotes are removed
CommentContinuation(str) ==
    IF Contains(str, <<LF>>)
    THEN LET ls == Split(str)
         IN  Join(<<ls[1]>> \o PrefixLines(Tail(ls)))
    ELSE str

\* extractValue(expr): ok is FALSE for a nil result
NoValue == [ok |-> FALSE, val |-> IntVal(0)]
extractValue(expr) ==
    IF expr.node = "BasicLit"
    THEN CASE expr.kind = "INT" ->
                LET r == Atoi(expr.value)
                IN  IF r.ok THEN [ok |-> TRUE, val |-> IntVal(r.n)]
                    ELSE NoValue
           [] expr.kind = "STRING" ->
                LET str == IF expr.value[1] = QUOTE
                           THEN Trim(expr.value, QUOTE)
                           ELSE Trim(expr.value, BQUOTE)
                IN  [ok |-> TRUE, val |-> StrVal(CommentContinuation(str))]
           [] expr.kind = "FLOAT" ->
                LET r == ParseFloat(expr.value)
                IN  IF r.ok THEN [ok |-> TRUE, val |-> FloatVal(r.n, r.frac)]
                    ELSE NoValue
           [] OTHER -> NoValue
    ELSE IF expr.node = "Ident"
    THEN CASE expr.value = <<"t", "r", "u", "e">> ->
                [ok |-> TRUE, val |-> BoolVal(TRUE)]
           [] expr.value = <<"f", "a", "l", "s", "e">> ->
                [ok |-> TRUE, val |-> BoolVal(FALSE)]
           [] OTHER -> NoValue
    ELSE NoValue

\* the loop over valueSpec.Names from name i on: name i is paired with
\* Values[i] when there is one
RECURSIVE BindNames(_, _, _)
BindNames(spec, i, table) ==
    IF i > Len(spec.names) THEN table
    ELSE IF i <= Len(spec.values)
    THEN LET v == extractValue(spec.values[i])
         IN  BindNames(spec, i + 1,
                       IF v.ok THEN Bind(table, spec.names[i], v.val)
                       ELSE table)
    ELSE BindNames(spec, i + 1, table)

\* case *ast.GenDecl: every spec of a const declaration
RECURSIVE BindConstSpecs(_, _)
BindConstSpecs(specs, table) ==
    IF Len(specs) = 0 THEN table
    ELSE BindConstSpecs(Tail(specs), BindNames(specs[1], 1, table))

\* InferredType with a typed ValueSpec visited like an untyped one
InferredType_Always(spec) == TRUE

\* the test of case *ast.ValueSpec: x.Type == nil
InferredType(spec) == ~spec.typed

\* case *ast.ValueSpec: ast.Inspect comes to each spec after its GenDecl
RECURSIVE VisitValueSpecs(_, _)
VisitValueSpecs(specs, table) ==
    IF Len(specs) = 0 THEN table
    ELSE VisitValueSpecs(Tail(specs),
                         IF InferredType(specs[1])
                         THEN BindNames(specs[1], 1, table)
                         ELSE table)

\* ast.Inspect over the declarations, depth first in source order
RECURSIVE InspectDecls(_, _)
InspectDecls(decls, table) ==
    IF Len(decls) = 0 THEN table
    ELSE LET d == decls[1]
             t1 == IF d.tok = "const" THEN BindConstSpecs(d.specs, table)
                   ELSE table
         IN  InspectDecls(Tail(decls), VisitValueSpecs(d.specs, t1))

\* extractConstants with the error of parser.ParseFile dropped
extractConstants_IgnoreParseError(ast, table) ==
    [ok |-> TRUE, table |-> InspectDecls(ast.decls, table)]

\* extractConstants(filename) on a file that parses to ast
extractConstants(ast, table) ==
    IF ~ast.ok THEN [ok |-> FALSE, table |-> table]
    ELSE [ok |-> TRUE, table |-> InspectDecls(ast.decls, table)]

-----------------------------------------------------------------------------
(* Inputs: the expressions, declarations and file texts the runs start     *)
(* from.                                                                   *)

NameA == <<"A">>
NameB == <<"B">>
NameU == <<"U">>
NamePool == <<NameA, NameB, <<"C">>, <<"D">>>>

\* the text of placeholder syntax k for a name
PH(k, name) == Patterns[k].open \o name \o Patterns[k].close

Int200 == Expr("BasicLit", "INT", <<"2", "0", "0">>)
Int7 == Expr("BasicLit", "INT", <<"7">>)
IntOctal == Expr("BasicLit", "INT", <<"0", "1", "0">>)
IntHex == Expr("BasicLit", "INT", <<"0", "x", "1", "0">>)
Float15 == Expr("BasicLit", "FLOAT", <<"1", ".", "5">>)
StrOk == Expr("BasicLit", "STRING", <<QUOTE, "o", "k", QUOTE>>)
StrRawTwoLines ==
    Expr("BasicLit", "STRING", <<BQUOTE, "l", "1", LF, "l", "2", BQUOTE>>)
StrEscapedNewline ==
    Expr("BasicLit", "STRING",
         <<QUOTE, "l", "1", BSLASH, "n", "l", "2", QUOTE>>)
StrDollarB == Expr("BasicLit", "STRING", <<QUOTE>> \o PH(2, NameB) \o <<QUOTE>>)
StrBraceA == Expr("BasicLit", "STRING", <<QUOTE>> \o PH(1, NameA) \o <<QUOTE>>)
StrB == Expr("BasicLit", "STRING", <<QUOTE, "B", QUOTE>>)
CharLit == Expr("BasicLit", "CHAR", <<"'", "a", "'">>)
IdentTrue == Expr("Ident", "", <<"t", "r", "u", "e">>)
IdentFalse == Expr("Ident", "", <<"f", "a", "l", "s", "e">>)
IdentOther == Expr("Ident", "", <<"B">>)
CallExpr == Expr("CallExpr", "", <<>>)
BinaryExpr == Expr("BinaryExpr", "", <<>>)
CompositeLit == Expr("CompositeLit", "", <<>>)

\* one expression for every branch of extractValue
ExprPalette ==
    {Int200, IntHex, IntOctal, Float15, StrOk, StrRawTwoLines,
     StrEscapedNewline, CharLit, IdentTrue, IdentOther, CallExpr,
     BinaryExpr, CompositeLit}

OneSpecFile(tok, spec) == [ok |-> TRUE, decls |-> <<GenDecl(tok, <<spec>>)>>]
Decl1(tok, name, value) == GenDecl(tok, <<ValueSpec(<<name>>, FALSE, <<value>>)>>)
AstNone == [ok |-> TRUE, decls |-> <<>>]
AstBad == [ok |-> FALSE, decls |-> <<>>]

\* files of one declaration with one ValueSpec: N names, M initializers
PairingFiles ==
    {OneSpecFile(tok, ValueSpec(SubSeq(NamePool, 1, n), typed, vals)) :
        tok \in {"const", "var"}, n \in 1..MaxNames, typed \in BOOLEAN,
        vals \in UNION {[1..m -> ExprPalette] : m \in 0..MaxNames}}

\* files of up to MaxSpecs ValueSpecs of the name A, written as a flat list:
\* first marks the ValueSpec that opens a new GenDecl
OrderEntries ==
    [tok : {"const", "var"}, first : BOOLEAN, typed : BOOLEAN,
     value : {Int200, Int7, CallExpr}]
OrderLists ==
    {f \in UNION {[1..n -> OrderEntries] : n \in 1..MaxSpecs} :
        /\ f[1].first
        /\ \A i \in 2..Len(f) : ~f[i].first => f[i].tok = f[i - 1].tok}
RECURSIVE GroupDecls(_)
GroupDecls(flat) ==
    IF Len(flat) = 0 THEN <<>>
    ELSE LET e == CHOOSE k \in 1..Len(flat) :
                      /\ \A i \in 2..k : ~flat[i].first
                      /\ k = Len(flat) \/ flat[k + 1].first
         IN  <<GenDecl(flat[1].tok,
                       [i \in 1..e |->
                           ValueSpec(<<NameA>>, flat[i].typed,
                                     <<flat[i].value>>)])>>
             \o GroupDecls(Drop(flat, e + 1))
OrderFiles == {[ok |-> TRUE, decls |-> GroupDecls(f)] : f \in OrderLists}

\* the files whose constants the rewriting runs start from
TableAsts ==
    {AstNone,
     [ok |-> TRUE, decls |-> <<Decl1("const", NameA, Int200)>>],
     [ok |-> TRUE, decls |-> <<Decl1("const", NameA, Int200),
                               Decl1("var", NameB, StrOk)>>],
     [ok |-> TRUE, decls |-> <<Decl1("const", NameA, StrDollarB),
                               Decl1("const", NameB, Int200)>>],
     [ok |-> TRUE, decls |-> <<Decl1("const", NameA, StrB),
                               Decl1("const", NameB, Int200)>>],
     [ok |-> TRUE, decls |-> <<Decl1("const", NameA, StrRawTwoLines),
                               Decl1("var", NameB, IdentTrue)>>],
     [ok |-> TRUE, decls |-> <<Decl1("const", NameA, StrBraceA)>>],
     [ok |-> TRUE, decls |-> <<Decl1("const", NameA, Float15),
                               Decl1("var", NameB, IdentFalse)>>]}

CM == <<"/", "/", " ">>
\* the text around the placeholder of a line
Contexts ==
    {[pre |-> CM, post |-> <<>>],
     [pre |-> CM, post |-> <<" ">> \o PH(1, NameU)],
     [pre |-> CM \o <<"$", "{">>, post |-> <<"}">>],
     [pre |-> CM \o PH(1, NameB) \o <<" ">>, post |-> <<" ", "o", "k">>],
     [pre |-> <<"x", " ">>, post |-> <<" ">> \o CM],
     [pre |-> <<"x", " ">>, post |-> <<>>],
     [pre |-> CM \o PH(3, NameU) \o <<" ">>, post |-> <<"}">>]}

\* a file of three lines: the same line in the three placeholder syntaxes
ThreeSyntaxes(c, name) ==
    Join([k \in 1..3 |-> c.pre \o PH(k, name) \o c.post])

RewriteTexts ==
    {ThreeSyntaxes(c, name) : c \in Contexts, name \in {NameA, NameU}}
    \cup {Join(<<CM \o <<"o", "k">>, <<"y">>>>), <<>>}

\* the texts and declarations of the files of a directory
DirTexts ==
    {<<"x">>,
     CM \o PH(1, NameA),
     Join(<<CM \o PH(2, NameB) \o <<" ">> \o PH(3, NameA), <<"y">>>>),
     CM \o PH(1, NameU) \o <<" ">> \o PH(1, NameA)}
DirAsts ==
    {AstNone, AstBad,
     [ok |-> TRUE, decls |-> <<Decl1("const", NameA, Int200)>>],
     [ok |-> TRUE, decls |-> <<Decl1("var", NameB, StrOk)>>],
     [ok |-> TRUE, decls |-> <<Decl1("var", NameA, Int7)>>]}
InertFile == [go |-> TRUE, ast |-> AstNone, text |-> <<"x">>]
FilePalette ==
    {[go |-> TRUE, ast |-> a, text |-> t] : a \in DirAsts, t \in DirTexts}
    \cup {[go |-> FALSE,
           ast |-> [ok |-> TRUE, decls |-> <<Decl1("const", NameA, Int7)>>],
           text |-> CM \o PH(1, NameA)],
          [go |-> FALSE, ast |-> AstBad, text |-> CM \o PH(1, NameA)]}

-----------------------------------------------------------------------------
(* The runs.                                                               *)

Files == DOMAIN disk

\* the state before a run over the files fs
Start(m, fs, table, at) ==
    /\ mode = m
    /\ asts = [f \in DOMAIN fs |-> fs[f].ast]
    /\ goFile = [f \in DOMAIN fs |-> fs[f].go]
    /\ disk = [f \in DOMAIN fs |-> fs[f].text]
    /\ orig = [f \in DOMAIN fs |-> fs[f].text]
    /\ constants = table
    /\ lines = <<>>
    /\ writes = [f \in DOMAIN fs |-> 0]
    /\ warnings = <<>>
    /\ pc = at
    /\ idx = 1
    /\ err = ""
    /\ runs = 0

\* main: ProcessFile on file 1, or ProcessDirectory on the directory
Init ==
    \/ \E file \in FilePalette :
          Start("file", [f \in 1..NFiles |-> IF f = 1 THEN file ELSE InertFile],
                EmptyTable, "start")
    \/ \E fs \in [1..NFiles -> FilePalette] :
          Start("dir", fs, EmptyTable, "extract")

\* the effect of replaceVariablesInComments(f) with result r
RewriteEffect(f, r) ==
    /\ disk' = [disk EXCEPT ![f] = r.content]
    /\ writes' = [writes EXCEPT ![f] = @ + (IF r.wrote THEN 1 ELSE 0)]
    /\ lines' = r.lines
    /\ warnings' = warnings \o r.warn
    /\ runs' = runs + 1

\* replaceVariablesInComments(f) with the given table
Rewrite(f, table) ==
    RewriteEffect(f, replaceVariablesInComments(disk[f], table))

\* ProcessFile(filename): extract, then rewrite unless extraction failed
ProcessFile ==
    /\ mode = "file" /\ pc = "start"
    /\ LET r == extractConstants(asts[1], constants)
       IN  IF r.ok
           THEN /\ constants' = r.table
                /\ Rewrite(1, r.table)
                /\ pc' = "done"
                /\ err' = ""
           ELSE /\ pc' = "failed"
                /\ err' = "failed to extract constants from file"
                /\ UNCHANGED <<constants, disk, writes, lines, warnings, runs>>
    /\ UNCHANGED <<asts, goFile, orig, mode, idx>>

\* ExtractWalkFn with one walk only: file idx is extracted and rewritten at
\* once, with the constants found so far
ExtractWalkFn_Interleaved ==
    /\ mode = "dir" /\ pc = "extract" /\ idx <= NFiles
    /\ LET r == IF goFile[idx] THEN extractConstants(asts[idx], constants)
                ELSE [ok |-> TRUE, table |-> constants]
       IN  IF r.ok
           THEN /\ constants' = r.table
                /\ IF goFile[idx]
                   THEN Rewrite(idx, r.table)
                   ELSE UNCHANGED <<disk, writes, lines, warnings, runs>>
                /\ idx' = idx + 1
                /\ pc' = IF idx = NFiles THEN "done" ELSE "extract"
                /\ err' = ""
           ELSE /\ pc' = "failed"
                /\ err' = "failed to extract constants"
                /\ UNCHANGED <<constants, idx, disk, writes, lines, warnings,
                               runs>>
    /\ UNCHANGED <<asts, goFile, orig, mode>>

\* the callback of the first filepath.Walk of ProcessDirectory on file idx;
\* an error ends the walk and ProcessDirectory, the last file starts the
\* second walk
ExtractWalkFn ==
    /\ mode = "dir" /\ pc = "extract" /\ idx <= NFiles
    /\ LET r == IF goFile[idx] THEN extractConstants(asts[idx], constants)
                ELSE [ok |-> TRUE, table |-> constants]
       IN  IF r.ok
           THEN /\ constants' = r.table
                /\ idx' = IF idx = NFiles THEN 1 ELSE idx + 1
                /\ pc' = IF idx = NFiles THEN "rewrite" ELSE "extract"
                /\ err' = ""
           ELSE /\ pc' = "failed"
                /\ err' = "failed to extract constants"
                /\ UNCHANGED <<constants, idx>>
    /\ UNCHANGED <<asts, goFile, disk, orig, lines, writes, warnings, mode,
                   runs>>

\* the callback of the second filepath.Walk of ProcessDirectory on file idx
RewriteWalkFn ==
    /\ mode = "dir" /\ pc = "rewrite" /\ idx <= NFiles
    /\ IF goFile[idx]
       THEN Rewrite(idx, constants)
       ELSE UNCHANGED <<disk, writes, lines, warnings, runs>>
    /\ idx' = idx + 1
    /\ pc' = IF idx = NFiles THEN "done" ELSE "rewrite"
    /\ UNCHANGED <<constants, asts, goFile, orig, mode, err>>

Next == ProcessFile \/ ExtractWalkFn \/ RewriteWalkFn

Spec == Init /\ [][Next]_vars

\* extractConstants called once on one file, from an empty table
InitExtract ==
    \E ast \in PairingFiles \cup OrderFiles \cup {AstBad} :
        Start("extractConstants",
              <<[go |-> TRUE, ast |-> ast, text |-> <<>>]>>, EmptyTable,
              "start")

ExtractCall ==
    /\ mode = "extractConstants" /\ pc = "start"
    /\ LET r == extractConstants(asts[1], constants)
       IN  /\ constants' = r.table
           /\ pc' = IF r.ok THEN "done" ELSE "failed"
           /\ err' = IF r.ok THEN "" ELSE "parse error"
    /\ UNCHANGED <<asts, goFile, disk, orig, lines, writes, warnings, mode,
                   idx, runs>>

NextExtract == ExtractCall

SpecExtract == InitExtract /\ [][NextExtract]_vars

\* replaceVariablesInComments called up to MaxRuns times on one file, with
\* the table that extractConstants built from another file
InitRewrite ==
    \E ast \in TableAsts, text \in RewriteTexts :
        Start("replaceVariablesInComments",
              <<[go |-> TRUE, ast |-> ast, text |-> text]>>,
              extractConstants(ast, EmptyTable).table, "ready")

ReplaceCall ==
    /\ mode = "replaceVariablesInComments" /\ pc = "ready"
    /\ runs < MaxRuns
    /\ Rewrite(1, constants)
    /\ UNCHANGED <<constants, asts, goFile, orig, mode, pc, idx, err>>

NextRewrite == ReplaceCall

SpecRewrite == InitRewrite /\ [][NextRewrite]_vars

-----------------------------------------------------------------------------
(* What the claims speak of.                                               *)

IdChars == Letters \cup Digits \cup {"_"}
Delimiters == {"{", "}", "(", ")"}

\* the placeholders of a line as written: <<k, i, e>> is a match of syntax k
\* at positions i..e
Placeholders(line) ==
    {m \in (1..3) \X (1..Len(line)) \X (1..Len(line)) :
        /\ MatchEnd(Patterns[m[1]], line, m[2]) > 0
        /\ m[3] = MatchEnd(Patterns[m[1]], line, m[2])}
PlaceholderName(line, m) == MatchName(Patterns[m[1]], m[2], m[3], line)

\* the lines of a text that contain "//"
CommentLines(text) == {i \in 1..Len(Split(text)) : HasComment(Split(text)[i])}

\* no line with "//" holds a recognized placeholder
NoPlaceholder(text) ==
    \A i \in CommentLines(text) : Placeholders(Split(text)[i]) = {}

\* the text of no bound value contains a brace or a parenthesis
PlainTable(table) ==
    \A n \in DOMAIN table :
        \A j \in 1..Len(FormatValue(table[n])) :
            FormatValue(table[n])[j] \notin Delimiters

\* no placeholder of the line is immediately followed by a brace, a
\* parenthesis or an identifier character
PlainLine(line) ==
    \A m \in Placeholders(line) :
        m[3] = Len(line) \/ line[m[3] + 1] \notin Delimiters \cup IdChars

PlainText(text) == \A i \in CommentLines(text) : PlainLine(Split(text)[i])

\* the line with every placeholder as written replaced at once: by the text
\* of its value when its name is bound, by itself otherwise
RECURSIVE SubstituteFrom(_, _, _, _)
SubstituteFrom(line, i, table, out) ==
    IF i > Len(line) THEN out
    ELSE LET here == {m \in Placeholders(line) : m[2] = i}
         IN  IF here = {}
             THEN SubstituteFrom(line, i + 1, table, Append(out, line[i]))
             ELSE LET m == CHOOSE x \in here : TRUE
                      name == PlaceholderName(line, m)
                  IN  SubstituteFrom(line, m[3] + 1, table,
                          out \o (IF name \in DOMAIN table
                                  THEN FormatValue(table[name])
                                  ELSE SubSeq(line, i, m[3])))
Substituted(line, table) == SubstituteFrom(line, 1, table, <<>>)

\* the names warned about so far
Warned == {warnings[i] : i \in 1..Len(warnings)}

\* two lines that differ only in the syntax of one placeholder of name
SameButSyntax(l1, l2, name) ==
    \E p \in 1..Len(l1), k1 \in 1..3, k2 \in 1..3 :
        /\ k1 # k2
        /\ OccursAt(l1, PH(k1, name), p)
        /\ OccursAt(l2, PH(k2, name), p)
        /\ SubSeq(l1, 1, p - 1) = SubSeq(l2, 1, p - 1)
        /\ Drop(l1, p + Len(PH(k1, name))) = Drop(l2, p + Len(PH(k2, name)))

\* a step that is a call of replaceVariablesInComments on file 1
IsRewriteCall == runs' = runs + 1

-----------------------------------------------------------------------------
C3_WritesIffLineDiffers ==
    [][IsRewriteCall =>
        /\ (writes'[1] = writes[1] + 1) <=> (lines' # Split(disk[1]))
        /\ writes'[1] \in {writes[1], writes[1] + 1}
        /\ writes'[1] = writes[1] => disk' = disk
        /\ writes'[1] = writes[1] + 1 => disk'[1] = Join(lines')
        /\ NoPlaceholder(disk[1]) => (disk' = disk /\ writes' = writes)]_vars

\* C3 witness: a file with a bound placeholder on a line without "//" only,
\* after a run that did not write it
C3_Witness ==
    /\ mode = "replaceVariablesInComments"
    /\ runs = 1
    /\ NameA \in DOMAIN constants
    /\ Contains(orig[1], PH(1, NameA))
    /\ NoPlaceholder(orig[1])
    /\ writes[1] = 0
    /\ disk[1] = orig[1]

(* C4: after the first run, every placeholder of a "//" line whose name is *)
(* not bound is still in its line as written and its name was warned       *)
(* about, the run did not fail, and (on a line where no placeholder is     *)
(* followed by a brace, parenthesis or identifier character, with values   *)
(* free of braces and parentheses) the line is the original with exactly   *)
(* its bound placeholders replaced by the text of their values.            *)
C4_UnboundKeptBoundReplaced ==
    (mode = "replaceVariablesInComments" /\ runs = 1) =>
        /\ err = ""
        /\ Len(lines) = Len(Split(orig[1]))
        /\ \A i \in CommentLines(orig[1]) :
              LET line == Split(orig[1])[i]
              IN  /\ \A m \in Placeholders(line) :
                        PlaceholderName(line, m) \notin DOMAIN constants =>
                            /\ Contains(lines[i], SubSeq(line, m[2], m[3]))
                            /\ PlaceholderName(line, m) \in Warned
                  /\ (PlainTable(constants) /\ PlainLine(line)) =>
                        lines[i] = Substituted(line, constants)

\* C4 witness: a "//" line with a bound and an unbound placeholder after the
\* run, the bound one replaced
C4_Witness ==
    /\ mode = "replaceVariablesInComments"
    /\ runs = 1
    /\ \E i \in CommentLines(orig[1]) :
          LET line == Split(orig[1])[i]
          IN  /\ \E m \in Placeholders(line) :
                    PlaceholderName(line, m) \in DOMAIN constants
              /\ \E m \in Placeholders(line) :
                    PlaceholderName(line, m) \notin DOMAIN constants
              /\ lines[i] # line
              /\ NameU \in Warned

(* C7 as stated: after the first run, two "//" lines that differ only in   *)
(* the syntax of one placeholder of a bound name have the same text.       *)
C7_SyntaxesResolveIdentically ==
    (mode = "replaceVariablesInComments" /\ runs = 1) =>
        \A i \in CommentLines(orig[1]), j \in CommentLines(orig[1]) :
            \A name \in DOMAIN constants :
                SameButSyntax(Split(orig[1])[i], Split(orig[1])[j], name)
                    => lines[i] = lines[j]

(* C7 amended: when the text of no bound value contains a brace or a       *)
(* parenthesis and no placeholder of either line is immediately followed   *)
(* by a brace, a parenthesis or an identifier character, two "//" lines    *)
(* that differ only in the syntax of one placeholder of a bound name have  *)
(* the same text after the first run.                                      *)
C7_SyntaxesAgreeOnPlainInput ==
    (mode = "replaceVariablesInComments" /\ runs = 1 /\ PlainTable(constants)) =>
        \A i \in CommentLines(orig[1]), j \in CommentLines(orig[1]) :
            \A name \in DOMAIN constants :
                (/\ SameButSyntax(Split(orig[1])[i], Split(orig[1])[j], name)
                 /\ PlainLine(Split(orig[1])[i])
                 /\ PlainLine(Split(orig[1])[j]))
                    => lines[i] = lines[j]

\* C7 witness: the three syntaxes of a bound name on three plain "//" lines,
\* each replaced, all three lines the same afterwards
C7_Witness ==
    /\ mode = "replaceVariablesInComments"
    /\ runs = 1
    /\ PlainTable(constants) /\ PlainText(orig[1])
    /\ NameA \in DOMAIN constants
    /\ Len(lines) = 3
    /\ \A k \in 1..3 :
          /\ HasComment(Split(orig[1])[k])
          /\ \E p \in 1..Len(Split(orig[1])[k]) :
                OccursAt(Split(orig[1])[k], PH(k, NameA), p)
          /\ lines[k] # Split(orig[1])[k]
    /\ lines[1] = lines[2] /\ lines[2] = lines[3]

-----------------------------------------------------------------------------
(* The declarations the extraction claims speak of, and the Go values of   *)
(* literals (The Go Programming Language Specification, "Integer           *)
(* literals", "String literals").                                          *)

\* an integer, floating-point or string literal, or true / false
IsLiteral(e) ==
    \/ e.node = "BasicLit" /\ e.kind \in {"INT", "FLOAT", "STRING"}
    \/ e.node = "Ident" /\ e.value \in {IdentTrue.value, IdentFalse.value}

HexDigitSeq == DigitSeq \o <<"a", "b", "c", "d", "e", "f">>
RECURSIVE BaseValue(_, _)
BaseValue(tok, base) ==
    IF Len(tok) = 0 THEN 0
    ELSE base * BaseValue(SubSeq(tok, 1, Len(tok) - 1), base)
         + (CHOOSE i \in 1..16 : HexDigitSeq[i] = tok[Len(tok)]) - 1
\* the value of an integer literal: 0x.. is hexadecimal, 0.. is octal
GoIntValue(tok) ==
    IF Len(tok) > 2 /\ tok[1] = "0" /\ tok[2] = "x"
    THEN BaseValue(Drop(tok, 3), 16)
    ELSE IF Len(tok) > 1 /\ tok[1] = "0" THEN BaseValue(Drop(tok, 2), 8)
    ELSE BaseValue(tok, 10)

\* the value of a string literal: a raw string is the text between the back
\* quotes; in an interpreted string \n is a line break
RECURSIVE Unescape(_)
Unescape(str) ==
    IF Len(str) = 0 THEN <<>>
    ELSE IF str[1] = BSLASH /\ Len(str) > 1
    THEN <<(IF str[2] = "n" THEN LF ELSE str[2])>> \o Unescape(Drop(str, 3))
    ELSE <<str[1]>> \o Unescape(Tail(str))
GoStringValue(tok) ==
    IF tok[1] = QUOTE THEN Unescape(SubSeq(tok, 2, Len(tok) - 1))
    ELSE SubSeq(tok, 2, Len(tok) - 1)

\* a string with every line after the first prefixed with "// "
WithCommentPrefix(str) ==
    Join([i \in 1..Len(Split(str)) |->
            IF i = 1 THEN Split(str)[i]
            ELSE <<"/", "/", " ">> \o Split(str)[i]])

\* the file of the run is one declaration of one ValueSpec
OneSpec ==
    /\ asts[1].ok
    /\ Len(asts[1].decls) = 1
    /\ Len(asts[1].decls[1].specs) = 1
TheDecl == asts[1].decls[1]
TheSpec == asts[1].decls[1].specs[1]
Min(a, b) == IF a < b THEN a ELSE b

\* the table that one pass over the declarations in source order gives, a
\* later binding of a name replacing an earlier one
RECURSIVE SourceOrderSpecs(_, _, _)
SourceOrderSpecs(tok, specs, table) ==
    IF Len(specs) = 0 THEN table
    ELSE SourceOrderSpecs(tok, Tail(specs),
            IF tok = "const" \/ ~specs[1].typed
            THEN BindNames(specs[1], 1, table) ELSE table)
RECURSIVE SourceOrderTable(_, _)
SourceOrderTable(decls, table) ==
    IF Len(decls) = 0 THEN table
    ELSE SourceOrderTable(Tail(decls),
            SourceOrderSpecs(decls[1].tok, decls[1].specs, table))

(* C5 as stated: after extractConstants on a constant declaration of one   *)
(* ValueSpec with N names and M initializers, all of them integer,         *)
(* floating-point, string or boolean literals, exactly the first min(N, M) *)
(* names are bound, an integer literal's name to the literal's value, and  *)
(* no error is returned.                                                   *)
C5_PositionalPairing ==
    (/\ mode = "extractConstants" /\ pc # "start"
     /\ OneSpec /\ TheDecl.tok = "const"
     /\ \A i \in 1..Len(TheSpec.values) : IsLiteral(TheSpec.values[i]))
    => /\ pc = "done" /\ err = ""
       /\ DOMAIN constants =
            {TheSpec.names[i] :
                i \in 1..Min(Len(TheSpec.names), Len(TheSpec.values))}
       /\ \A i \in 1..Min(Len(TheSpec.names), Len(TheSpec.values)) :
            LET e == TheSpec.values[i]
                v == constants[TheSpec.names[i]]
            IN  /\ e.kind = "INT" => v = IntVal(GoIntValue(e.value))
                /\ e.kind = "FLOAT" => v.kind = "float"
                /\ e.kind = "STRING" => v.kind = "string"
                /\ e.node = "Ident" => v = BoolVal(e.value = IdentTrue.value)

(* C6 as stated: after extractConstants, a name whose initializer is a     *)
(* string literal is bound to the literal's string value with every line   *)
(* after the first prefixed with "// ", so that a literal of value         *)
(* line1 LF line2 referenced as {{X}} in a comment line is replaced by     *)
(* line1, a line break and "// line2".                                     *)
C6_MultiLineStringPrefixed ==
    (/\ mode = "extractConstants" /\ pc = "done"
     /\ OneSpec /\ (TheDecl.tok = "const" \/ ~TheSpec.typed))
    => \A i \in 1..Min(Len(TheSpec.names), Len(TheSpec.values)) :
          LET e == TheSpec.values[i]
              name == TheSpec.names[i]
          IN  (e.node = "BasicLit" /\ e.kind = "STRING") =>
                /\ name \in DOMAIN constants
                /\ constants[name] =
                      StrVal(WithCommentPrefix(GoStringValue(e.value)))
                /\ processCommentLine(CM \o PH(1, name), constants).out =
                      CM \o WithCommentPrefix(GoStringValue(e.value))

(* C8: after extractConstants, every bound name is a name of a ValueSpec   *)
(* of a const declaration, or of a var declaration without a type, whose   *)
(* initializer at the name's position is a literal; so a name whose only   *)
(* initializers are calls, arithmetic, other identifiers or composite      *)
(* literals, and a variable declared with a type, is not bound; and a      *)
(* file that parses returns no error.                                      *)
C8_OnlyLiteralInitializersBind ==
    mode = "extractConstants" =>
        /\ (asts[1].ok /\ pc # "start") => (pc = "done" /\ err = "")
        /\ \A name \in DOMAIN constants :
              \E d \in 1..Len(asts[1].decls) :
                \E sp \in 1..Len(asts[1].decls[d].specs) :
                    LET decl == asts[1].decls[d]
                        spec == decl.specs[sp]
                    IN  \E i \in 1..Min(Len(spec.names), Len(spec.values)) :
                            /\ spec.names[i] = name
                            /\ decl.tok = "const" \/ ~spec.typed
                            /\ IsLiteral(spec.values[i])

\* C8 witness: a var declaration with a type, an integer literal and a call
\* as initializers, after extractConstants: nothing is bound
C8_Witness ==
    /\ mode = "extractConstants" /\ pc = "done"
    /\ OneSpec
    /\ TheDecl.tok = "var" /\ TheSpec.typed
    /\ TheSpec.names = <<NameA, NameB>>
    /\ TheSpec.values = <<Int200, CallExpr>>
    /\ constants = EmptyTable

(* C10 as stated: after extractConstants, the value bound to a name is the *)
(* value of the last declaration of the name, in source order, that        *)
(* produces a binding.                                                     *)
C10_LastDeclarationWins ==
    (mode = "extractConstants" /\ pc = "done") =>
        constants = SourceOrderTable(asts[1].decls, EmptyTable)

-----------------------------------------------------------------------------
(* The runs of ProcessDirectory and ProcessFile.                           *)

\* the table after extraction from the .go files 1..k that parse
RECURSIVE ExtractedUpTo(_)
ExtractedUpTo(k) ==
    IF k = 0 THEN EmptyTable
    ELSE IF goFile[k] /\ asts[k].ok
    THEN extractConstants(asts[k], ExtractedUpTo(k - 1)).table
    ELSE ExtractedUpTo(k - 1)
\* the bindings of file f alone
OwnTable(f) ==
    IF goFile[f] /\ asts[f].ok
    THEN extractConstants(asts[f], EmptyTable).table ELSE EmptyTable
\* a text with the placeholders of every line holding "//" substituted
SubstitutedText(text, table) ==
    Join([i \in 1..Len(Split(text)) |->
            IF HasComment(Split(text)[i])
            THEN Substituted(Split(text)[i], table) ELSE Split(text)[i]])
BadFiles == {f \in Files : goFile[f] /\ ~asts[f].ok}
Untouched ==
    /\ disk = orig
    /\ runs = 0
    /\ \A f \in Files : writes[f] = 0

(* C1: in a run of ProcessDirectory, whenever a file has been rewritten    *)
(* the table holds the constants of every .go file of the directory; so a  *)
(* name declared only in file A has A's value in the table, and a file B   *)
(* is rewritten with it wherever B comes in the walk: at the end every .go *)
(* file is its original text with the placeholders of its comment lines    *)
(* substituted from the table of all the files (stated for tables and      *)
(* lines free of placeholder syntax, where substitution is one pass).      *)
C1_ExtractionPrecedesRewriting ==
    mode = "dir" =>
        /\ runs > 0 =>
              /\ pc \in {"rewrite", "done"}
              /\ constants = ExtractedUpTo(NFiles)
        /\ pc = "done" =>
              /\ \A A \in Files : \A name \in DOMAIN OwnTable(A) :
                    (\A C \in Files \ {A} : name \notin DOMAIN OwnTable(C))
                    => /\ name \in DOMAIN constants
                       /\ constants[name] = OwnTable(A)[name]
              /\ \A B \in Files :
                    IF goFile[B] /\ PlainTable(constants) /\ PlainText(orig[B])
                    THEN disk[B] = SubstitutedText(orig[B],
                                                   ExtractedUpTo(NFiles))
                    ELSE goFile[B] \/ disk[B] = orig[B]

\* C1 witness: the first file of the walk references NameA, which only the
\* second file declares, and ends with the second file's value in place
C1_Witness ==
    /\ mode = "dir" /\ pc = "done"
    /\ goFile[1] /\ goFile[2]
    /\ NameA \notin DOMAIN OwnTable(1)
    /\ NameA \in DOMAIN OwnTable(2)
    /\ orig[1] = CM \o PH(1, NameA)
    /\ disk[1] = CM \o FormatValue(OwnTable(2)[NameA])
    /\ writes[1] = 1

(* C9: a parse failure of a file ends the run with an error: ProcessFile   *)
(* on a file that does not parse fails without a binding and without       *)
(* rewriting; ProcessDirectory on a directory with a .go file that does    *)
(* not parse fails at the first such file, the table holding the bindings  *)
(* of the files before it only, and no file of the directory is rewritten. *)
C9_ParseErrorIsFatal ==
    /\ (mode = "file" /\ ~asts[1].ok /\ pc # "start") =>
          /\ pc = "failed" /\ err # ""
          /\ constants = EmptyTable
          /\ Untouched
    /\ (mode = "dir" /\ BadFiles # {}) =>
          LET bad == CHOOSE f \in BadFiles : \A g \in BadFiles : f <= g
          IN  /\ pc \in {"extract", "failed"}
              /\ idx <= bad
              /\ Untouched
              /\ pc = "failed" =>
                    /\ idx = bad
                    /\ constants = ExtractedUpTo(bad - 1)
    /\ mode \in {"file", "dir"} => (pc = "failed" <=> err # "")

\* C9 witness: the second file of the directory does not parse; the first
\* one, which declares and references NameA, is left as it was
C9_Witness ==
    /\ mode = "dir" /\ pc = "failed" /\ err # ""
    /\ idx = 2 /\ goFile[1]
    /\ NameA \in DOMAIN constants
    /\ orig[1] = CM \o PH(1, NameA)
    /\ disk[1] = orig[1]

====
